---------------------------- MODULE Spec2Model ----------------------------
(***************************************************************************)
(* ChromaRecall: the timed colour-matching game engine.                    *)
(*                                                                         *)
(* Two revisions of the engine live in the repository and both are         *)
(* modelled here, over one set of variables:                               *)
(*                                                                         *)
(*   Spec        the current revision, src/src/components/                 *)
(*               color-memory-game.tsx (hooks useGameLogic and             *)
(*               useColorSelection; colours are generated synchronously).  *)
(*   SpecEngine  the same hooks, with handleColorSelection also invoked    *)
(*               directly, in any state, not only through a rendered       *)
(*               swatch.                                                   *)
(*   SpecLate    the same as Spec, begun in a run that is under way, at    *)
(*               the start of a round of any level up to MaxCurveLevel.    *)
(*   SpecLateEngine  the runs of SpecLate with the direct calls of         *)
(*               SpecEngine.                                               *)
(*   SpecPersist the same as Spec, for a player without a stored name or   *)
(*               with a stored best score of 0: the end of a run saves     *)
(*               the score and the loss dialog asks for a username.        *)
(*   SpecWorker  the worker-backed revision, src/unnamed/part_001 (colours *)
(*               are awaited from a web worker, so a selection stays in    *)
(*               flight across timer ticks and clicks).                    *)
(*   SpecLateWorker  the same as SpecWorker, begun in a run that is under  *)
(*               way, at the level 9, 10 or 50.                            *)
(*   SpecWorkerInvalid  the same as SpecWorker, with a worker that may     *)
(*               answer the request of startGame with an invalid result.   *)
(*                                                                         *)
(* One step of the model is one browser task: a click, one firing of the   *)
(* interval timer, one worker message.  React state read inside a handler  *)
(* is the state of the last render (the unprimed variables); the state     *)
(* updates a handler queues are applied in order before the next task.     *)
(*                                                                         *)
(* Units.  Reals are scaled to integers:                                   *)
(*   colour difference    thousandths  (difference 1.0  is 1000)           *)
(*   similarity           1/10000      (similarity 0.71 is 7100)           *)
(*   comboMultiplier      tenths       (multiplier 1.5  is 15)             *)
(*   performanceRating    hundredths   (rating 1.0      is 100)            *)
(***************************************************************************)
EXTENDS Integers, Sequences, FiniteSets, TLC

(***************************************************************************)
(* Bounds of the model.                                                    *)
(***************************************************************************)
\* Rounds are played at levels 1..MaxLevel: a pick that would advance past
\* MaxLevel is not taken.
MaxLevel == 5
\* The player picks either at once (timeLeft = selectionTime) or in the last
\* MaxLatePick seconds of the selection window.
MaxLatePick == 1
\* SpecLate starts runs at the levels 1..MaxCurveLevel; the difficulty curve
\* is flat from level 110 on.
MaxCurveLevel == 120
\* The runs of SpecPersist are played at the levels 1..MaxSavedLevel.
MaxSavedLevel == 2
\* At most MaxAwaited calls of saveScore are awaited by handleGameEnd at a
\* time: the player does not pick while that many are.
MaxAwaited == 1

VARIABLES
    gameState,              \* useState<GameState>: targetColor, options, score,
                            \* level, timeLeft, isPlaying, closeMatches
    showTarget,             \* useState(false)
    comboMultiplier,        \* useState(1), in tenths
    isProcessingSelection,  \* useState(false)
    showLossDialog,         \* useState(false)
    timerRef,               \* TRUE while an interval is scheduled
    pending,                \* the promise reaction still to run
    rev1,                   \* part_001 only: performanceRating, closeMatches,
                            \* levelStarted, isLoading, showLeaderboard (each
                            \* a useState)
    worker,                 \* part_001 only: the colour worker's requests and
                            \* the promise its onmessage resolves
    localUserData,          \* useState<LocalUserData | null>, read from
                            \* localStorage on mount
    showUsernameInput,      \* useState(false)
    isNewHighScore,         \* useState(false)
    savesAwaited,           \* calls of saveScore that handleGameEnd awaits
    submit,                 \* the handleUsernameSubmit in flight
    saveCalls,              \* history: the calls of saveScore of the last step
    phaseTicks,             \* history: timer firings since the phase began
    lastOp                  \* history: the operation of the last step

vars == <<gameState, showTarget, comboMultiplier, isProcessingSelection,
          showLossDialog, timerRef, pending, rev1, worker,
          localUserData, showUsernameInput, isNewHighScore, savesAwaited,
          submit, saveCalls, phaseTicks, lastOp>>

Max(a, b) == IF a >= b THEN a ELSE b
Min(a, b) == IF a <= b THEN a ELSE b
Abs(a) == IF a >= 0 THEN a ELSE 0 - a

\* Math.round of the non-negative rational num/den: floor(num/den + 1/2).
Round(num, den) == (2 * num + den) \div (2 * den)

(***************************************************************************)
(* Difficulty model: calculateDifficulty(level, performanceRating).        *)
(***************************************************************************)
\* Mutant of colorCount: the count is not capped.
colorCount_noCap(level) == 3 + (level \div 10)

colorCount(level) == Min(10, 3 + (level \div 10))

\* similarity before the performance factor, in 1/10000.
baseSimilarity(level) ==
    IF level <= 10 THEN 7000 + level * 100
    ELSE IF level <= 30 THEN 8000 + (level - 10) * 50
    ELSE IF level <= 50 THEN 9000 + (level - 30) * 30
    ELSE 9600 + (level - 50) * 5

\* Mutant of similarity: the similarity is not capped.
similarity_noCap(level, rating) == (baseSimilarity(level) * rating) \div 100

\* Math.min(0.99, similarity * performanceRating), rating in hundredths.
similarity(level, rating) == Min(9900, (baseSimilarity(level) * rating) \div 100)

\* Mutant of baseSelectionTime: the time falls by one every ten levels.
baseSelectionTime_stepOf10(level) ==
    IF level <= 10 THEN 15
    ELSE IF level <= 80 THEN Max(2, 15 - ((level - 10) \div 10))
    ELSE 2

\* selectionTime before the performance factor (lines 53-60).
baseSelectionTime(level) ==
    IF level <= 10 THEN 15
    ELSE IF level <= 80 THEN Max(2, 15 - ((level - 10) \div 5))
    ELSE 2

\* Math.max(2, Math.round(selectionTime / performanceRating)).
selectionTime(level, rating) == Max(2, Round(baseSelectionTime(level) * 100, rating))

viewTime == 3


(***************************************************************************)
(* Collaborators from lib/color-utils, which is not part of the sources:   *)
(* modelled from their contract.  A colour is a point on a line, in        *)
(* thousandths of a difference unit; NoColor is the empty string ''.       *)
(***************************************************************************)
NoColor == 0
ColorStride == 1000000

\* calculateColorDifference(a, b): symmetric, 0 iff the colours are equal.
calculateColorDifference(a, b) == Abs(a - b)

\* The offsets of the decoys from the target: the first decoy is either
\* nearly the target (0.05), or the nearest colour that is not an exact match
\* (1.0); the others are far.
FirstDecoys == {50, 1000}
decoyOffset(first, i) == IF i = 1 THEN first ELSE 30000 + 1000 * (i - 2)

\* generateGameColors(level): every { target, options } the pool may return:
\* colorCount(level) distinct colours, the target exactly once, anywhere.
generateGameColors(level) ==
    LET n == colorCount(level)
        target == level * ColorStride
    IN  { [ target  |-> target,
            options |-> [ i \in 1..n |->
                            IF i = p THEN target
                            ELSE target + decoyOffset(first, IF i < p THEN i ELSE i - 1) ] ]
          : p \in 1..n, first \in FirstDecoys }

(***************************************************************************)
(* The current revision: src/src/components/color-memory-game.tsx          *)
(***************************************************************************)
\* generateColors(level) (lines 165-179): what the call may do, return the
\* pool's colours or throw (the pool failed, or returned no options to map).
generateColors(level) ==
    { [threw |-> FALSE, target |-> c.target, options |-> c.options]
      : c \in generateGameColors(level) }
    \cup { [threw |-> TRUE] }

\* Mutant of getCloseMatchLimit: the limit of the high levels everywhere.
getCloseMatchLimit_alwaysOne(level) == 1

getCloseMatchLimit(level) == IF level <= 50 THEN 3 ELSE 1

\* 25 * (1 - similarity) is evaluated in IEEE doubles.  At these levels the
\* double comes out just above the exact product (level 1: 7.250000000000001,
\* level 50: 1.0000000000000009), so a difference equal to the exact product
\* is still below it; at the other levels the exact comparison decides.
floatExcess(level) == IF level \in {1, 2, 8, 9, 10} \/ level >= 50 THEN 1 ELSE 0

\* Mutant of closeTolerance: the factor of the bound is 30.
closeTolerance_factor30(level) == 30 * (10000 - similarity(level, 100)) + floatExcess(level)

\* The bound of line 271, 25 * (1 - similarity), in ten-thousandths.
closeTolerance(level) == 25 * (10000 - similarity(level, 100)) + floatExcess(level)

\* Mutant of resetCloseMatches: the counter is never reset.
resetCloseMatches_never(gs) == gs.closeMatches

\* newCloseMatches before the classification (lines 273-283): the stored
\* counter, or 0 when the level of the pick is divisible by 10.
resetCloseMatches(gs) == IF gs.level % 10 = 0 THEN 0 ELSE gs.closeMatches

\* Mutant of comboAfterPick: a close pick keeps the multiplier.
comboAfterPick_closeKeeps(combo, isExactMatch) ==
    IF isExactMatch THEN Min(50, combo + 5) ELSE combo

\* Mutant of comboAfterPick: the multiplier is not capped.
comboAfterPick_noCap(combo, isExactMatch) == IF isExactMatch THEN combo + 5 ELSE 10

\* newComboMultiplier (lines 274, 286, 290; a wrong pick keeps the multiplier
\* in line 297, see selectionVerdict), in tenths.
comboAfterPick(combo, isExactMatch) == IF isExactMatch THEN Min(50, combo + 5) ELSE 10

\* Mutant of pickPoints: the multiplier the pick began with is used.
pickPoints_oldCombo(accuracyPoints, speedPoints, combo, newCombo) ==
    Round((accuracyPoints + speedPoints) * combo, 10)

\* totalPoints (line 303): Math.round((accuracyPoints + speedPoints) *
\* newComboMultiplier); combo is the multiplier the pick began with.
pickPoints(accuracyPoints, speedPoints, combo, newCombo) ==
    Round((accuracyPoints + speedPoints) * newCombo, 10)

\* Mutant of selectionVerdict: the close test comes before the exact test.
selectionVerdict_closeFirst(gs, combo, selectedColor) ==
    LET difference == calculateColorDifference(gs.targetColor, selectedColor)
        selTime == selectionTime(gs.level, 100)
        isExactMatch == difference < 1000
        isCloseMatch == 10 * difference < closeTolerance(gs.level)
        closeMatchLimit == getCloseMatchLimit(gs.level)
        newCloseMatches == IF isCloseMatch
                           THEN resetCloseMatches(gs) + 1 ELSE resetCloseMatches(gs)
        newComboMultiplier == IF isCloseMatch THEN 10
                              ELSE IF isExactMatch THEN comboAfterPick(combo, TRUE)
                              ELSE combo
        gameOver == IF isCloseMatch THEN newCloseMatches > closeMatchLimit
                    ELSE ~isExactMatch
        accuracyPoints == Max(0, 100 - difference)
        speedPoints == Round(Max(0, gs.timeLeft) * 50, selTime)
        totalPoints == pickPoints(accuracyPoints, speedPoints, combo, newComboMultiplier)
    IN  [ gameOver |-> gameOver, isExactMatch |-> isExactMatch,
          isCloseMatch |-> isCloseMatch,
          newCloseMatches |-> newCloseMatches,
          newComboMultiplier |-> newComboMultiplier,
          accuracyPoints |-> accuracyPoints, speedPoints |-> speedPoints,
          totalPoints |-> totalPoints ]

\* The locals handleColorSelect computes from the rendered state (lines
\* 266-303): classification, counters and points of one pick.
selectionVerdict(gs, combo, selectedColor) ==
    LET difference == calculateColorDifference(gs.targetColor, selectedColor)
        selTime == selectionTime(gs.level, 100)
        isExactMatch == difference < 1000
        \* difference < 25 * (1 - similarity)
        isCloseMatch == 10 * difference < closeTolerance(gs.level)
        closeMatchLimit == getCloseMatchLimit(gs.level)
        newCloseMatches == IF ~isExactMatch /\ isCloseMatch
                           THEN resetCloseMatches(gs) + 1 ELSE resetCloseMatches(gs)
        \* exact: line 286; close: line 290; wrong: unchanged (line 274)
        newComboMultiplier == IF isExactMatch \/ isCloseMatch
                              THEN comboAfterPick(combo, isExactMatch)
                              ELSE combo
        gameOver == IF isExactMatch THEN FALSE
                    ELSE IF isCloseMatch THEN newCloseMatches > closeMatchLimit
                    ELSE TRUE
        accuracyPoints == Max(0, 100 - difference)
        \* Math.round(Math.max(0, timeLeft / selectionTime) * 50)
        speedPoints == Round(Max(0, gs.timeLeft) * 50, selTime)
        totalPoints == pickPoints(accuracyPoints, speedPoints, combo, newComboMultiplier)
    IN  [ gameOver |-> gameOver, isExactMatch |-> isExactMatch,
          isCloseMatch |-> isCloseMatch,
          newCloseMatches |-> newCloseMatches,
          newComboMultiplier |-> newComboMultiplier,
          accuracyPoints |-> accuracyPoints, speedPoints |-> speedPoints,
          totalPoints |-> totalPoints ]

\* Mutant of endGame: the game over also puts the level back to 1.
endGame_resetsLevel(gs) ==
    [gs EXCEPT !.isPlaying = FALSE, !.timeLeft = 3, !.level = 1,
               !.targetColor = NoColor, !.options = <<>>]

\* endGame's updateGameState (lines 149-154).
endGame(gs) ==
    [gs EXCEPT !.isPlaying = FALSE, !.timeLeft = 3,
               !.targetColor = NoColor, !.options = <<>>]

\* Mutant of timerEffect: the interval is scheduled after every render.
timerEffect_alwaysSchedules(gs) == TRUE

\* The timer effect (lines 359-367): after a render the interval is
\* scheduled exactly when the rendered state is playing; its cleanup, and
\* endGame (lines 156-158), clear it.
timerEffect(gs) == gs.isPlaying

NoPending == [kind |-> "none"]

(***************************************************************************)
(* The player's data and the persistence collaborator.  lib/api, with      *)
(* saveScore, is not part of the sources: saveScore(username, score,       *)
(* level) is modelled from its contract, a request that is acknowledged or *)
(* fails later (a promise that resolves or rejects).                       *)
(***************************************************************************)
\* localUserData: null, or { username, highestScore }.
NoUser == [stored |-> FALSE, username |-> "", highestScore |-> 0]
Player(best) == [stored |-> TRUE, username |-> "player", highestScore |-> best]

\* A best score that no run of the model reaches.
TopScore == 1000000

\* localUserData?.highestScore || 0 (lines 221, 394).
highestScoreOf(user) == IF user.stored THEN user.highestScore ELSE 0

\* One call saveScore(username, score, level), as saveCalls records it.
saveScore(username, score, level) ==
    [username |-> username, score |-> score, level |-> level]

NoSubmit == [stage |-> "none"]

\* What a callback created by the current render has closed over (the
\* dependencies of handleGameEnd, lines 257 and 452).
renderedClosure ==
    [score |-> gameState.score, level |-> gameState.level, user |-> localUserData]

\* The step calls no saveScore and leaves the player's data alone.
NoPersistence ==
    /\ saveCalls' = <<>>
    /\ UNCHANGED <<localUserData, showUsernameInput, isNewHighScore,
                   savesAwaited, submit>>

\* The state of the persistence glue after the mount effect (lines 382-386,
\* 461-466), with user read from localStorage.
PersistenceAtRest(user) ==
    /\ localUserData = user
    /\ showUsernameInput = FALSE
    /\ isNewHighScore = FALSE
    /\ savesAwaited = 0
    /\ submit = NoSubmit
    /\ saveCalls = <<>>

\* The state of part_001 before its first start, and its worker at rest.
Rev1Init == [ performanceRating |-> 100, closeMatches |-> 0,
              levelStarted |-> 0, isLoading |-> FALSE,
              showLeaderboard |-> FALSE ]
NoPromise == [kind |-> "none"]
WorkerIdle == [queue |-> <<>>, promise |-> NoPromise]

Phase ==
    IF ~gameState.isPlaying THEN "Idle"
    ELSE IF showTarget THEN "ShowingTarget" ELSE "AwaitingSelection"

\* The state after the first render and the mount effect, with user read
\* from localStorage.
InitFor(user) ==
    /\ gameState = [ targetColor |-> NoColor, options |-> <<>>, score |-> 0,
                     level |-> 1, timeLeft |-> 3, isPlaying |-> FALSE,
                     closeMatches |-> 0 ]
    /\ showTarget = FALSE
    /\ comboMultiplier = 10
    /\ isProcessingSelection = FALSE
    /\ showLossDialog = FALSE
    /\ timerRef = FALSE
    /\ pending = NoPending
    /\ rev1 = Rev1Init
    /\ worker = WorkerIdle
    /\ PersistenceAtRest(user)
    /\ phaseTicks = 0
    /\ lastOp = "init"

\* The player of Spec has a stored best score that no run beats: the end of
\* a run saves nothing and asks for nothing.
Init == InitFor(Player(TopScore))

\* Mutant of startGame: the counters of the last run are kept.
startGame_keepsCounters(colors, op) ==
    /\ isProcessingSelection' = FALSE
    /\ gameState' = [gameState EXCEPT
                        !.isPlaying = ~colors.threw, !.score = 0, !.level = 1,
                        !.timeLeft = 3,
                        !.targetColor = IF colors.threw THEN NoColor ELSE colors.target,
                        !.options = IF colors.threw THEN <<>> ELSE colors.options]
    /\ showTarget' = IF colors.threw THEN showTarget ELSE TRUE
    /\ lastOp' = IF colors.threw THEN "startFailed" ELSE op
    /\ timerRef' = gameState'.isPlaying
    /\ phaseTicks' = 0
    /\ UNCHANGED <<comboMultiplier, pending, rev1, worker>>

\* startGame (lines 181-217).  colors is the outcome of generateColors(1);
\* op names the caller for lastOp.
startGame(colors, op) ==
    /\ isProcessingSelection' = FALSE
    /\ IF ~colors.threw
       THEN /\ gameState' = [gameState EXCEPT
                                !.isPlaying = TRUE, !.score = 0, !.level = 1,
                                !.timeLeft = 3, !.targetColor = colors.target,
                                !.options = colors.options, !.closeMatches = 0]
            /\ showTarget' = TRUE
            /\ comboMultiplier' = 10
            /\ lastOp' = op
       ELSE /\ gameState' = [gameState EXCEPT
                                !.isPlaying = FALSE, !.score = 0, !.level = 1,
                                !.timeLeft = 3, !.targetColor = NoColor,
                                !.options = <<>>, !.closeMatches = 0]
            /\ UNCHANGED <<showTarget, comboMultiplier>>
            /\ lastOp' = "startFailed"
    /\ timerRef' = timerEffect(gameState')
    /\ phaseTicks' = 0
    /\ UNCHANGED <<pending, rev1, worker>>

\* The Start button of GameIntro, rendered while not playing (line 540); the
\* modal loss dialog is closed.
StartFromIntro ==
    /\ pending = NoPending
    /\ ~gameState.isPlaying
    /\ ~showLossDialog
    /\ \E colors \in generateColors(1) :
          startGame(colors, "start")
    /\ UNCHANGED showLossDialog
    /\ NoPersistence

\* handlePlayAgain (lines 468-472), the button of the loss dialog while it
\* does not ask for a username (lines 615-623).
handlePlayAgain ==
    /\ pending = NoPending
    /\ showLossDialog
    /\ ~showUsernameInput
    /\ showLossDialog' = FALSE
    /\ \E colors \in generateColors(1) :
          startGame(colors, "playAgain")
    /\ NoPersistence

\* The loss dialog is dismissed (onOpenChange, line 587).
DismissLossDialog ==
    /\ pending = NoPending
    /\ showLossDialog
    /\ showLossDialog' = FALSE
    /\ lastOp' = "dismiss"
    /\ UNCHANGED <<gameState, showTarget, comboMultiplier, isProcessingSelection,
                   timerRef, pending, rev1, worker, phaseTicks>>
    /\ NoPersistence


\* What handleGameEnd of useGameLogic decides about the score of the run
\* (lines 221-254), from what it closed over: a stored player's new best is
\* saved, a player without a stored name is asked for one.
saveHighScore(c) ==
    LET newHighScore == c.score > highestScoreOf(c.user)
    IN  [ isNewHighScore |-> newHighScore,
          saves |-> c.user.stored /\ newHighScore,
          asksUsername |-> ~c.user.stored ]

\* handleGameEnd of useGameLogic (lines 219-257) calls endGame(lost), saves
\* a new best score (saveScore is not awaited) and raises the loss dialog;
\* gs is the game state with the updates the caller queued before it.
handleGameEnd(gs) ==
    /\ gameState' = endGame(gs)
    /\ isProcessingSelection' = FALSE
    /\ showLossDialog' = TRUE
    /\ phaseTicks' = 0
    /\ LET c == renderedClosure
           h == saveHighScore(c)
       IN  /\ isNewHighScore' = h.isNewHighScore
           /\ saveCalls' = IF h.saves
                           THEN <<saveScore(c.user.username, c.score, c.level)>>
                           ELSE <<>>
           /\ localUserData' = IF h.saves
                               THEN [c.user EXCEPT !.highestScore = c.score]
                               ELSE localUserData
           /\ showUsernameInput' = (showUsernameInput \/ h.asksUsername)
    /\ UNCHANGED <<savesAwaited, submit>>

\* handleGameEnd of ColorMemoryGame (lines 417-452), to its await of
\* saveScore or to its end: it calls handleGameEnd of useGameLogic, then
\* updates the stored best score (updateUserData, lines 391-398) and saves a
\* new best score once more.  c is what the callback closed over.
ColorMemoryGame_handleGameEnd(c) ==
    LET h == saveHighScore(c)
        hasName == c.user.stored
        awaits == c.score > 0 /\ hasName /\ c.score > highestScoreOf(c.user)
        call == saveScore(c.user.username, c.score, c.level)
    IN  /\ gameState' = endGame(gameState)
        /\ isProcessingSelection' = FALSE
        /\ showLossDialog' = TRUE
        /\ phaseTicks' = 0
        /\ isNewHighScore' = h.isNewHighScore
        /\ saveCalls' = (IF h.saves THEN <<call>> ELSE <<>>)
                           \o (IF awaits THEN <<call>> ELSE <<>>)
        /\ localUserData' =
              IF c.score > 0 /\ hasName
              THEN [c.user EXCEPT
                      !.highestScore = Max(highestScoreOf(c.user), c.score)]
              ELSE localUserData
        /\ showUsernameInput' = (showUsernameInput \/ ~hasName)
        /\ savesAwaited' = IF awaits THEN savesAwaited + 1 ELSE savesAwaited
        /\ UNCHANGED submit

\* Mutant of phaseContinues: the phase goes on until timeLeft is 0.
phaseContinues_toZero(gs) == gs.timeLeft > 0

\* Mutant of openSelection: the window opens with the time that is left.
openSelection_keepsTimeLeft(gs) == gs

\* The update of runTimer when the view ends (lines 347-351).
openSelection(gs) == [gs EXCEPT !.timeLeft = selectionTime(gs.level, 100)]

\* Mutant of phaseContinues: the phase goes on past timeLeft = 0.
phaseContinues_pastZero(gs) == gs.timeLeft > -1

\* runTimer's test (line 339): the phase goes on while timeLeft > 1.
phaseContinues(gs) == gs.timeLeft > 1

\* One firing of the interval: runTimer (lines 337-357).
runTimer ==
    /\ pending = NoPending
    /\ timerRef
    /\ lastOp' = "tick"
    /\ IF gameState.isPlaying
       THEN IF phaseContinues(gameState)
            THEN /\ gameState' = [gameState EXCEPT !.timeLeft = gameState.timeLeft - 1]
                 /\ phaseTicks' = phaseTicks + 1
                 /\ UNCHANGED <<showTarget, isProcessingSelection, showLossDialog>>
                 /\ NoPersistence
            ELSE IF showTarget
            THEN /\ showTarget' = FALSE
                 /\ gameState' = openSelection(gameState)
                 /\ phaseTicks' = 0
                 /\ UNCHANGED <<isProcessingSelection, showLossDialog>>
                 /\ NoPersistence
            ELSE /\ handleGameEnd(gameState)
                 /\ UNCHANGED showTarget
       ELSE /\ UNCHANGED <<gameState, showTarget, isProcessingSelection,
                           showLossDialog, phaseTicks>>
            /\ NoPersistence
    /\ timerRef' = timerEffect(gameState')
    /\ UNCHANGED <<comboMultiplier, pending, rev1, worker>>

\* Mutant of gameOverUpdate: the points of the terminal pick are added.
gameOverUpdate_addsPoints(gs, v) ==
    [gs EXCEPT !.isPlaying = FALSE, !.closeMatches = v.newCloseMatches,
               !.score = gs.score + v.totalPoints]

\* The update of a terminal pick (line 309).
gameOverUpdate(gs, v) ==
    [gs EXCEPT !.isPlaying = FALSE, !.closeMatches = v.newCloseMatches]

\* Mutant of advanceRound: the options of the round before are kept.
advanceRound_keepsOptions(gs, v, newColors) ==
    [gs EXCEPT !.level = gs.level + 1,
               !.score = gs.score + v.totalPoints,
               !.targetColor = newColors.target,
               !.timeLeft = 3,
               !.closeMatches = v.newCloseMatches]

\* Mutant of advanceRound: timeLeft is not reset to the view time.
advanceRound_keepsTimeLeft(gs, v, newColors) ==
    [gs EXCEPT !.level = gs.level + 1,
               !.score = gs.score + v.totalPoints,
               !.targetColor = newColors.target,
               !.options = newColors.options,
               !.closeMatches = v.newCloseMatches]

\* The update of a non-terminal pick (lines 314-326).
advanceRound(gs, v, newColors) ==
    [gs EXCEPT !.level = gs.level + 1,
               !.score = gs.score + v.totalPoints,
               !.targetColor = newColors.target,
               !.options = newColors.options,
               !.timeLeft = 3,
               !.closeMatches = v.newCloseMatches]

\* What handleColorSelect returns (line 333).
selectionResult(v) ==
    [ gameOver |-> v.gameOver, isExactMatch |-> v.isExactMatch,
      totalPoints |-> v.totalPoints, accuracyPoints |-> v.accuracyPoints,
      speedPoints |-> v.speedPoints ]

\* handleColorSelection of useColorSelection (lines 69-103) up to the call
\* of handleColorSelect (lines 259-334), which runs synchronously to its
\* return; the promise reactions run in selectionSettled.  On the branch of a
\* pick that is not terminal, generateColors(level + 1) is called (line 312)
\* and returns or throws.  The pending reaction keeps the colour of the click
\* (the argument of the call) with the promise's result, and what the
\* handleGameEnd it may call closed over.
handleColorSelection(selectedColor) ==
    /\ UNCHANGED <<rev1, worker>>
    /\ IF isProcessingSelection \/ ~gameState.isPlaying
       THEN /\ lastOp' = "selectIgnored"
            /\ UNCHANGED <<gameState, showTarget, comboMultiplier,
                           isProcessingSelection, showLossDialog, timerRef,
                           pending, phaseTicks>>
            /\ NoPersistence
       ELSE LET v == selectionVerdict(gameState, comboMultiplier, selectedColor) IN
            /\ lastOp' = "select"
            /\ IF v.gameOver
               THEN /\ handleGameEnd(gameOverUpdate(gameState, v))
                    /\ comboMultiplier' = v.newComboMultiplier
                    /\ pending' = [kind |-> "settle", outcome |-> "resolved",
                                   result |-> selectionResult(v),
                                   color |-> selectedColor,
                                   closure |-> renderedClosure]
                    /\ UNCHANGED showTarget
               ELSE \E newColors \in generateColors(gameState.level + 1) :
                    IF newColors.threw
                    THEN /\ isProcessingSelection' = TRUE
                         /\ pending' = [kind |-> "settle", outcome |-> "rejected",
                                        color |-> selectedColor,
                                        closure |-> renderedClosure]
                         /\ UNCHANGED <<gameState, showTarget, comboMultiplier,
                                        showLossDialog, phaseTicks>>
                         /\ NoPersistence
                    ELSE /\ gameState' = advanceRound(gameState, v, newColors)
                         /\ showTarget' = TRUE
                         /\ comboMultiplier' = v.newComboMultiplier
                         /\ isProcessingSelection' = TRUE
                         /\ pending' = [kind |-> "settle", outcome |-> "resolved",
                                        result |-> selectionResult(v),
                                        color |-> selectedColor,
                                        closure |-> renderedClosure]
                         /\ phaseTicks' = 0
                         /\ UNCHANGED showLossDialog
                         /\ NoPersistence
            /\ timerRef' = timerEffect(gameState')

\* Mutant of selectionSettled: no catch, a rejection only clears the flag.
selectionSettled_noCatch ==
    /\ pending.kind = "settle"
    /\ pending' = NoPending
    /\ lastOp' = "settle"
    /\ isProcessingSelection' = FALSE
    /\ UNCHANGED <<gameState, showLossDialog, phaseTicks, timerRef,
                   showTarget, comboMultiplier, rev1, worker>>
    /\ NoPersistence

\* The promise reactions of handleColorSelection (lines 77-102): then, catch
\* and finally run as microtasks, before any other task.  On game over and on
\* a rejection the component's handleGameEnd (lines 417-452) ends the game;
\* its part up to the await of saveScore runs in the same microtasks.
selectionSettled ==
    /\ pending.kind = "settle"
    /\ pending' = NoPending
    /\ lastOp' = "settle"
    /\ IF pending.outcome = "rejected" \/ pending.result.gameOver
       THEN ColorMemoryGame_handleGameEnd(pending.closure)
       ELSE /\ isProcessingSelection' = FALSE
            /\ UNCHANGED <<gameState, showLossDialog, phaseTicks>>
            /\ NoPersistence
    /\ timerRef' = timerEffect(gameState')
    /\ UNCHANGED <<showTarget, comboMultiplier, rev1, worker>>

\* The swatches the renderer offers (lines 544-575): none while the target is
\* shown or the game is not running, else the first six options.
renderedSwatches ==
    IF gameState.isPlaying /\ ~showTarget
    THEN { gameState.options[i] : i \in 1..Min(6, Len(gameState.options)) }
    ELSE {}

\* The moments the player picks at, and the levels played: a round is won
\* below MaxLevel and, in the runs of SpecLate, at the levels around the
\* ends of the 10-level blocks 0 and 4.
PickTime ==
    \/ gameState.timeLeft = selectionTime(gameState.level, 100)
    \/ gameState.timeLeft <= MaxLatePick
LateLevels == {9, 10, 50, 51}
WithinMaxLevel(selectedColor) ==
    \/ gameState.level < MaxLevel
    \/ gameState.level \in LateLevels
    \/ selectionVerdict(gameState, comboMultiplier, selectedColor).gameOver

\* A click on a rendered swatch (onClick, lines 566-570); the modal loss
\* dialog is closed.
ClickSwatch ==
    /\ pending = NoPending
    /\ ~showLossDialog
    /\ savesAwaited < MaxAwaited
    /\ PickTime
    /\ \E selectedColor \in renderedSwatches :
          /\ WithinMaxLevel(selectedColor)
          /\ ~isProcessingSelection /\ gameState.isPlaying
          /\ handleColorSelection(selectedColor)

Next ==
    \/ StartFromIntro
    \/ handlePlayAgain
    \/ DismissLossDialog
    \/ runTimer
    \/ ClickSwatch
    \/ selectionSettled

Spec == Init /\ [][Next]_vars

(***************************************************************************)
(* Runs that are under way.  SpecLate starts at the beginning of a round   *)
(* at any level up to MaxCurveLevel, in a state the run has reached from   *)
(* startGame by picks made at once: the nearest colour that is not exact   *)
(* at the levels of closeAt, the target at the others.                     *)
(***************************************************************************)
\* One round of such a run: the pick is made as the selection window opens.
pickAtOnce(run, closeAt) ==
    LET level == run.gs.level
        atPick == [run.gs EXCEPT !.timeLeft = selectionTime(level, 100)]
        selectedColor == IF level \in closeAt
                         THEN atPick.targetColor + 1000
                         ELSE atPick.targetColor
        v == selectionVerdict(atPick, run.combo, selectedColor)
    IN  [ gs |-> advanceRound(atPick, v,
                    [target |-> (level + 1) * ColorStride, options |-> <<>>]),
          combo |-> v.newComboMultiplier,
          alive |-> ~v.gameOver ]

\* The rounds of the levels from .. to - 1, played from run while it is
\* alive (by halves, the first half before the second).
RECURSIVE playRounds(_, _, _, _)
playRounds(run, from, to, closeAt) ==
    IF ~run.alive \/ from >= to THEN run
    ELSE IF to = from + 1 THEN pickAtOnce(run, closeAt)
    ELSE LET mid == (from + to) \div 2
         IN  playRounds(playRounds(run, from, mid, closeAt), mid, to, closeAt)

\* The run at the start of the round of level, from the state of startGame.
runTo(level, closeAt) ==
    playRounds([ gs |-> [ targetColor |-> ColorStride, options |-> <<>>,
                          score |-> 0, level |-> 1, timeLeft |-> 3,
                          isPlaying |-> TRUE, closeMatches |-> 0 ],
                 combo |-> 10, alive |-> TRUE ],
               1, level, closeAt)

\* The runs SpecLate starts from: without a close pick to every level, and
\* with close picks in the blocks that end at the levels 9 and 49.
LateStarts ==
    { [level |-> l, closeAt |-> {}] : l \in 1..MaxCurveLevel }
    \cup { [level |-> 9, closeAt |-> 1..k] : k \in 1..3 }
    \cup { [level |-> 50, closeAt |-> 41..(40 + k)] : k \in 1..3 }

InitLate ==
    \E start \in LateStarts :
       LET run == runTo(start.level, start.closeAt) IN
       /\ run.alive
       /\ \E colors \in generateGameColors(start.level) :
             gameState = [run.gs EXCEPT !.targetColor = colors.target,
                                        !.options = colors.options]
       /\ showTarget = TRUE
       /\ comboMultiplier = run.combo
       /\ isProcessingSelection = FALSE
       /\ showLossDialog = FALSE
       /\ timerRef = TRUE
       /\ pending = NoPending
       /\ rev1 = Rev1Init
       /\ worker = WorkerIdle
       /\ PersistenceAtRest(Player(TopScore))
       /\ phaseTicks = 0
       /\ lastOp = IF start.level = 1 THEN "start" ELSE "settle"

SpecLate == InitLate /\ [][Next]_vars

(***************************************************************************)
(* The engine on its own: handleColorSelection, the function the hook      *)
(* returns, is also called while no swatch is rendered.                    *)
(***************************************************************************)
SelectOutOfPhase ==
    /\ pending = NoPending
    /\ Phase # "AwaitingSelection"
    /\ \E selectedColor \in { gameState.targetColor, gameState.targetColor + 30000 } :
          /\ WithinMaxLevel(selectedColor)
          /\ handleColorSelection(selectedColor)

NextEngine == Next \/ SelectOutOfPhase

SpecEngine == Init /\ [][NextEngine]_vars

\* The same calls in the runs that are under way.
SpecLateEngine == InitLate /\ [][NextEngine]_vars


(***************************************************************************)
(* The persistence glue of the current revision.  SpecPersist starts with  *)
(* no stored player, or with one whose best score is 0, and adds the       *)
(* settling of an awaited saveScore and the username form of the loss      *)
(* dialog.                                                                 *)
(***************************************************************************)
\* The rest of handleGameEnd of ColorMemoryGame once its saveScore settled
\* (lines 428-451): acknowledged (ok) or failed.
saveSettles(ok) ==
    [isNewHighScore |-> ok \/ isNewHighScore, showLossDialog |-> TRUE]

\* The saveScore that handleGameEnd of ColorMemoryGame awaits settles.
saveScoreSettled ==
    /\ pending = NoPending
    /\ savesAwaited > 0
    /\ savesAwaited' = savesAwaited - 1
    /\ \E ok \in BOOLEAN :
          /\ isNewHighScore' = saveSettles(ok).isNewHighScore
          /\ showLossDialog' = saveSettles(ok).showLossDialog
          /\ lastOp' = IF ok THEN "saved" ELSE "saveFailed"
    /\ saveCalls' = <<>>
    /\ UNCHANGED <<gameState, showTarget, comboMultiplier, isProcessingSelection,
                   timerRef, pending, rev1, worker, localUserData,
                   showUsernameInput, submit, phaseTicks>>

\* handleUsernameSubmit (lines 474-477) to its await of the username check:
\* the button of the loss dialog while it asks for a username (lines
\* 615-618), a name typed in.  One submission is in flight at a time.
handleUsernameSubmit ==
    /\ pending = NoPending
    /\ showLossDialog
    /\ showUsernameInput
    /\ submit = NoSubmit
    /\ submit' = [stage |-> "check", closure |-> renderedClosure]
    /\ lastOp' = "submit"
    /\ saveCalls' = <<>>
    /\ UNCHANGED <<gameState, showTarget, comboMultiplier, isProcessingSelection,
                   showLossDialog, timerRef, pending, rev1, worker,
                   localUserData, showUsernameInput, isNewHighScore,
                   savesAwaited, phaseTicks>>

\* What /api/check-username may answer (line 477-478): it fails, or the name
\* is new, or it exists with a best score.
CheckUsername ==
    { [ok |-> FALSE, exists |-> FALSE, highestScore |-> 0],
      [ok |-> TRUE, exists |-> FALSE, highestScore |-> 0],
      [ok |-> TRUE, exists |-> TRUE, highestScore |-> 0],
      [ok |-> TRUE, exists |-> TRUE, highestScore |-> TopScore] }

\* updateUserData(username, newScore) (lines 391-398), as closed over by the
\* submission: the stored best is the larger of the old and the new score.
updateUserData(user, newScore) ==
    [ stored |-> TRUE, username |-> "player",
      highestScore |-> Max(highestScoreOf(user), newScore) ]

\* The end of handleUsernameSubmit (lines 491-499): the form is closed and
\* handlePlayAgain starts a game.
submitDone ==
    /\ showUsernameInput' = FALSE
    /\ submit' = NoSubmit
    /\ showLossDialog' = FALSE
    /\ \E colors \in generateColors(1) :
          startGame(colors, "playAgain")
    /\ saveCalls' = <<>>
    /\ UNCHANGED <<isNewHighScore, savesAwaited>>

\* The catch of handleUsernameSubmit (lines 500-506): a toast, nothing else.
submitFailed(op) ==
    /\ submit' = NoSubmit
    /\ lastOp' = op
    /\ saveCalls' = <<>>
    /\ UNCHANGED <<gameState, showTarget, comboMultiplier, isProcessingSelection,
                   showLossDialog, timerRef, pending, rev1, worker,
                   localUserData, showUsernameInput, isNewHighScore,
                   savesAwaited, phaseTicks>>

\* The username check settles (lines 477-489): on an answer the stored best
\* is updated, and the score is saved when it is the player's best.
usernameChecked ==
    /\ pending = NoPending
    /\ submit.stage = "check"
    /\ \E answer \in CheckUsername :
          LET c == submit.closure
              updatedHighScore == IF answer.exists
                                  THEN Max(answer.highestScore, c.score)
                                  ELSE c.score
          IN  IF ~answer.ok
              THEN submitFailed("checkFailed")
              ELSE /\ localUserData' = updateUserData(c.user, updatedHighScore)
                   /\ IF updatedHighScore = c.score
                      THEN /\ saveCalls' = <<saveScore("player", c.score, c.level)>>
                           /\ submit' = [stage |-> "save", closure |-> c]
                           /\ lastOp' = "checked"
                           /\ UNCHANGED <<gameState, showTarget, comboMultiplier,
                                          isProcessingSelection, showLossDialog,
                                          timerRef, pending, rev1, worker,
                                          showUsernameInput, isNewHighScore,
                                          savesAwaited, phaseTicks>>
                      ELSE submitDone

\* The saveScore of handleUsernameSubmit settles (lines 488-506).
usernameSaved ==
    /\ pending = NoPending
    /\ submit.stage = "save"
    /\ \E ok \in BOOLEAN :
          IF ok
          THEN submitDone /\ UNCHANGED localUserData
          ELSE submitFailed("submitSaveFailed")

\* The runs of SpecPersist: the picks are made as the window opens, at the
\* levels up to MaxSavedLevel.
ClickAtOnce ==
    /\ gameState.timeLeft = selectionTime(gameState.level, 100)
    /\ ClickSwatch
    /\ gameState'.level <= MaxSavedLevel

NextPersist ==
    \/ StartFromIntro
    \/ handlePlayAgain
    \/ DismissLossDialog
    \/ runTimer
    \/ ClickAtOnce
    \/ selectionSettled
    \/ saveScoreSettled
    \/ handleUsernameSubmit
    \/ usernameChecked
    \/ usernameSaved

InitPersist == \E user \in {NoUser, Player(0)} : InitFor(user)

SpecPersist == InitPersist /\ [][NextPersist]_vars

(***************************************************************************)
(* The worker-backed revision: src/unnamed/part_001.                       *)
(* Colours come from a web worker: generateColorsWithWorker (lines 83-92)  *)
(* posts a request and installs, as the worker's only onmessage handler,   *)
(* the resolve of a new promise; the caller is suspended until a message   *)
(* of the worker resolves that promise.                                    *)
(***************************************************************************)
InitWorker ==
    /\ gameState = [ targetColor |-> NoColor, options |-> <<>>, score |-> 0,
                     level |-> 1, timeLeft |-> 2, isPlaying |-> FALSE ]
    /\ showTarget = FALSE
    /\ comboMultiplier = 10
    /\ isProcessingSelection = FALSE
    /\ showLossDialog = FALSE
    /\ timerRef = FALSE
    /\ pending = NoPending
    /\ rev1 = Rev1Init
    /\ worker = WorkerIdle
    /\ PersistenceAtRest(Player(TopScore))
    /\ phaseTicks = 0
    /\ lastOp = "init"

\* generateColorsWithWorker(level, rating) (lines 83-92): the request joins
\* the worker's queue and promise replaces the handler installed before.
generateColorsWithWorker(level, promise) ==
    [queue |-> Append(worker.queue, level), promise |-> promise]

\* Mutant of W_selectionVerdict: the block is that of the next level.
W_selectionVerdict_nextBlock(gs, r, combo, selectedColor) ==
    LET difference == calculateColorDifference(gs.targetColor, selectedColor)
        selTime == selectionTime(gs.level, r.performanceRating)
        \* 0.1 - Math.min(level, 50) * 0.001, in thousandths
        similarityThreshold == 100 - Min(gs.level, 50)
        isExactMatch == difference < 10
        closeMatchLimit == IF gs.level <= 50 THEN 3 ELSE 1
        currentTenLevelBlock == (gs.level + 1) \div 10
        closeMatchesOfBlock == IF r.levelStarted # currentTenLevelBlock
                             THEN 0 ELSE r.closeMatches
        newCloseMatches == IF ~isExactMatch THEN closeMatchesOfBlock + 1
                           ELSE closeMatchesOfBlock
        newPerformanceRating == IF ~isExactMatch
                                THEN Max(90, r.performanceRating - 2)
                                ELSE Min(110, r.performanceRating + 1)
        newComboMultiplier == IF ~isExactMatch THEN 10 ELSE Min(50, combo + 5)
        gameOver == \/ (~isExactMatch /\ newCloseMatches > closeMatchLimit)
                    \/ difference >= similarityThreshold
        accuracyPoints == Max(0, 100 - difference)
        speedPoints == Round(Max(0, gs.timeLeft) * 50, selTime)
        totalPoints == Round((accuracyPoints + speedPoints) * newComboMultiplier, 10)
    IN  [ gameOver |-> gameOver, isExactMatch |-> isExactMatch,
          currentTenLevelBlock |-> currentTenLevelBlock,
          newCloseMatches |-> newCloseMatches,
          newPerformanceRating |-> newPerformanceRating,
          newComboMultiplier |-> newComboMultiplier,
          totalPoints |-> totalPoints ]

\* The locals handleColorSelect of part_001 computes (lines 288-331).
W_selectionVerdict(gs, r, combo, selectedColor) ==
    LET difference == calculateColorDifference(gs.targetColor, selectedColor)
        selTime == selectionTime(gs.level, r.performanceRating)
        \* 0.1 - Math.min(level, 50) * 0.001, in thousandths
        similarityThreshold == 100 - Min(gs.level, 50)
        isExactMatch == difference < 10
        closeMatchLimit == IF gs.level <= 50 THEN 3 ELSE 1
        currentTenLevelBlock == gs.level \div 10
        closeMatchesOfBlock == IF r.levelStarted # currentTenLevelBlock
                             THEN 0 ELSE r.closeMatches
        newCloseMatches == IF ~isExactMatch THEN closeMatchesOfBlock + 1
                           ELSE closeMatchesOfBlock
        newPerformanceRating == IF ~isExactMatch
                                THEN Max(90, r.performanceRating - 2)
                                ELSE Min(110, r.performanceRating + 1)
        newComboMultiplier == IF ~isExactMatch THEN 10 ELSE Min(50, combo + 5)
        gameOver == \/ (~isExactMatch /\ newCloseMatches > closeMatchLimit)
                    \/ difference >= similarityThreshold
        accuracyPoints == Max(0, 100 - difference)
        speedPoints == Round(Max(0, gs.timeLeft) * 50, selTime)
        totalPoints == Round((accuracyPoints + speedPoints) * newComboMultiplier, 10)
    IN  [ gameOver |-> gameOver, isExactMatch |-> isExactMatch,
          currentTenLevelBlock |-> currentTenLevelBlock,
          newCloseMatches |-> newCloseMatches,
          newPerformanceRating |-> newPerformanceRating,
          newComboMultiplier |-> newComboMultiplier,
          totalPoints |-> totalPoints ]

\* The timer effect of part_001 (lines 243-276), run after the render of gs:
\* at timeLeft = 0 it opens the selection window, or ends the game
\* (endGame, lines 200-228); the interval runs while playing with time left.
W_timerEffect(gs, st, r) ==
    IF gs.isPlaying /\ gs.timeLeft = 0
    THEN IF st
         THEN [ gs |-> [gs EXCEPT !.timeLeft = selectionTime(gs.level, r.performanceRating)],
                showTarget |-> FALSE, lost |-> FALSE, timer |-> TRUE ]
         ELSE [ gs |-> [gs EXCEPT !.isPlaying = FALSE],
                showTarget |-> st, lost |-> TRUE, timer |-> FALSE ]
    ELSE [ gs |-> gs, showTarget |-> st, lost |-> FALSE,
           timer |-> gs.isPlaying /\ gs.timeLeft > 0 ]

\* What endGame of part_001 does besides the game state (lines 200-223): a
\* stored player's score is handed to the score worker with the score and
\* level of the render (saveScoreInBackground, lines 112-130), a player
\* without a stored name is asked for one.  The worker's answer (lines
\* 114-127) updates highScore, which the model does not hold, and the stored
\* best, which the best of the player of SpecWorker already tops.
W_endGame ==
    /\ isNewHighScore' = (gameState.score > highestScoreOf(localUserData))
    /\ saveCalls' = IF localUserData.stored
                    THEN <<saveScore(localUserData.username,
                                     gameState.score, gameState.level)>>
                    ELSE <<>>
    /\ showUsernameInput' = (showUsernameInput \/ ~localUserData.stored)
    /\ UNCHANGED <<localUserData, savesAwaited, submit>>

\* One firing of the interval of part_001 (lines 255-260), with the effect
\* that follows its render.
W_runTimer ==
    /\ timerRef
    /\ LET e == W_timerEffect(
                   [gameState EXCEPT !.timeLeft = Max(0, gameState.timeLeft - 1)],
                   showTarget, rev1)
       IN  /\ gameState' = e.gs
           /\ showTarget' = e.showTarget
           /\ showLossDialog' = (showLossDialog \/ e.lost)
           /\ timerRef' = e.timer
           /\ phaseTicks' = IF e.gs.timeLeft = gameState.timeLeft - 1
                            THEN phaseTicks + 1 ELSE 0
           /\ IF e.lost THEN W_endGame ELSE NoPersistence
    /\ lastOp' = "tick"
    /\ UNCHANGED <<comboMultiplier, isProcessingSelection, pending, rev1, worker>>

\* startGame of part_001 up to its await (lines 132-137).  The Start button
\* shows while not playing, Play Again in the loss dialog; neither while the
\* loading screen is up (line 418) or under the modal leaderboard.
W_startGame ==
    /\ ~rev1.isLoading
    /\ ~rev1.showLeaderboard
    /\ ~gameState.isPlaying
    /\ rev1' = [rev1 EXCEPT !.isLoading = TRUE]
    /\ worker' = generateColorsWithWorker(1, [kind |-> "start"])
    /\ lastOp' = "startRequested"
    /\ NoPersistence
    /\ UNCHANGED <<gameState, showTarget, comboMultiplier, isProcessingSelection,
                   showLossDialog, timerRef, pending, phaseTicks>>

\* Mutant of W_selectionIgnored: the processing flag is not tested.
W_selectionIgnored_noFlag == ~gameState.isPlaying

\* The test at the head of handleColorSelect of part_001 (line 280; the
\* wrapper debouncedHandleColorSelect, line 379, tests the flag as well).
W_selectionIgnored == ~gameState.isPlaying \/ isProcessingSelection

\* handleColorSelect of part_001 up to its await (lines 278-340), or to its
\* end when the pick is terminal (lines 335-337, 354-372).
W_handleColorSelect(selectedColor) ==
    /\ UNCHANGED pending
    /\ IF W_selectionIgnored
       THEN /\ lastOp' = "selectIgnored"
            /\ UNCHANGED <<gameState, showTarget, comboMultiplier,
                           isProcessingSelection, showLossDialog, timerRef,
                           rev1, worker, phaseTicks>>
            /\ NoPersistence
       ELSE LET v == W_selectionVerdict(gameState, rev1, comboMultiplier, selectedColor) IN
            /\ lastOp' = "select"
            /\ IF v.gameOver
               THEN /\ gameState' = [gameState EXCEPT !.isPlaying = FALSE]
                    /\ showLossDialog' = TRUE
                    /\ rev1' = [rev1 EXCEPT
                                  !.levelStarted = v.currentTenLevelBlock,
                                  !.closeMatches = v.newCloseMatches,
                                  !.performanceRating = v.newPerformanceRating]
                    /\ comboMultiplier' = v.newComboMultiplier
                    /\ isProcessingSelection' = FALSE
                    /\ timerRef' = FALSE
                    /\ phaseTicks' = 0
                    /\ UNCHANGED <<showTarget, worker>>
                    /\ W_endGame
               ELSE /\ isProcessingSelection' = TRUE
                    /\ worker' = generateColorsWithWorker(gameState.level + 1,
                                    [kind |-> "select", verdict |-> v])
                    /\ UNCHANGED <<gameState, showTarget, comboMultiplier,
                                   showLossDialog, timerRef, rev1, phaseTicks>>
                    /\ NoPersistence

\* A click on a rendered swatch of part_001 (renderColorSwatches, lines
\* 386-404; rendered while playing with the target hidden, lines 481-494).
W_ClickSwatch ==
    /\ ~rev1.isLoading
    /\ ~rev1.showLeaderboard
    /\ gameState.isPlaying /\ ~showTarget
    /\ \/ gameState.timeLeft = selectionTime(gameState.level, rev1.performanceRating)
       \/ gameState.timeLeft <= MaxLatePick
    /\ \E i \in 1..Min(6, Len(gameState.options)) :
          LET selectedColor == gameState.options[i] IN
          /\ \/ gameState.level < MaxLevel
             \/ gameState.level \in LateLevels
             \/ W_selectionVerdict(gameState, rev1, comboMultiplier, selectedColor).gameOver
          /\ W_handleColorSelect(selectedColor)

\* The rest of handleColorSelect of part_001, run when its promise is
\* resolved with newColors (lines 340-372).  The updates are applied to the
\* game state of that moment, with the locals of the pick.
W_selectionResumed(v, newColors) ==
    LET e == W_timerEffect(
                [gameState EXCEPT !.level = gameState.level + 1,
                                  !.score = gameState.score + v.totalPoints,
                                  !.targetColor = newColors.target,
                                  !.options = newColors.options,
                                  !.timeLeft = 3],
                TRUE, [rev1 EXCEPT !.performanceRating = v.newPerformanceRating])
    IN  /\ gameState' = e.gs
        /\ showTarget' = e.showTarget
        /\ timerRef' = e.timer
        /\ isProcessingSelection' = FALSE
        /\ rev1' = [rev1 EXCEPT !.levelStarted = v.currentTenLevelBlock,
                                !.closeMatches = v.newCloseMatches,
                                !.performanceRating = v.newPerformanceRating]
        /\ comboMultiplier' = v.newComboMultiplier
        /\ phaseTicks' = 0
        /\ lastOp' = "selectReply"
        /\ UNCHANGED showLossDialog

\* The rest of startGame of part_001, run when its promise is resolved with
\* colors (lines 137-174).
W_startResumed(colors) ==
    LET e == W_timerEffect(
                [gameState EXCEPT !.isPlaying = TRUE, !.score = 0, !.level = 1,
                                  !.timeLeft = 3,
                                  !.targetColor = colors.target,
                                  !.options = colors.options],
                TRUE, Rev1Init)
    IN  /\ gameState' = e.gs
        /\ showTarget' = e.showTarget
        /\ timerRef' = e.timer
        /\ comboMultiplier' = 10
        /\ rev1' = [Rev1Init EXCEPT !.showLeaderboard = rev1.showLeaderboard]
        /\ showLossDialog' = FALSE
        /\ phaseTicks' = 0
        /\ lastOp' = "start"
        /\ UNCHANGED isProcessingSelection

\* A message of the worker: the colours of the oldest request, handed to the
\* onmessage handler installed last (lines 86-88).  Resolving a promise that
\* is resolved already does nothing.
W_workerReply ==
    /\ worker.queue # <<>>
    /\ worker' = [queue |-> Tail(worker.queue), promise |-> NoPromise]
    /\ UNCHANGED pending
    /\ NoPersistence
    /\ \E colors \in generateGameColors(Head(worker.queue)) :
          IF worker.promise.kind = "select"
          THEN W_selectionResumed(worker.promise.verdict, colors)
          ELSE IF worker.promise.kind = "start"
          THEN W_startResumed(colors)
          ELSE /\ lastOp' = "staleReply"
               /\ UNCHANGED <<gameState, showTarget, comboMultiplier,
                              isProcessingSelection, showLossDialog, timerRef,
                              rev1, phaseTicks>>

\* The loss dialog of part_001 is dismissed (onOpenChange, line 504).
W_DismissLossDialog ==
    /\ ~rev1.isLoading
    /\ showLossDialog
    /\ showLossDialog' = FALSE
    /\ lastOp' = "dismiss"
    /\ UNCHANGED <<gameState, showTarget, comboMultiplier, isProcessingSelection,
                   timerRef, pending, rev1, worker, phaseTicks>>
    /\ NoPersistence

\* openLeaderboard of part_001 (lines 231-239), the Champions button (lines
\* 430-435), which is rendered whether a game is running or not: a stored
\* player's score and level are handed to the score worker.
W_openLeaderboard ==
    /\ ~rev1.isLoading
    /\ ~showLossDialog
    /\ ~rev1.showLeaderboard
    /\ rev1' = [rev1 EXCEPT !.showLeaderboard = TRUE]
    /\ saveCalls' = IF localUserData.stored
                    THEN <<saveScore(localUserData.username,
                                     gameState.score, gameState.level)>>
                    ELSE <<>>
    /\ lastOp' = "openLeaderboard"
    /\ UNCHANGED <<gameState, showTarget, comboMultiplier, isProcessingSelection,
                   showLossDialog, timerRef, pending, worker, localUserData,
                   showUsernameInput, isNewHighScore, savesAwaited, submit,
                   phaseTicks>>

\* The leaderboard of part_001 is closed (onOpenChange, line 550).
W_closeLeaderboard ==
    /\ ~rev1.isLoading
    /\ rev1.showLeaderboard
    /\ rev1' = [rev1 EXCEPT !.showLeaderboard = FALSE]
    /\ lastOp' = "closeLeaderboard"
    /\ UNCHANGED <<gameState, showTarget, comboMultiplier, isProcessingSelection,
                   showLossDialog, timerRef, pending, worker, phaseTicks>>
    /\ NoPersistence

NextWorker ==
    \/ W_startGame
    \/ W_runTimer
    \/ W_ClickSwatch
    \/ W_workerReply
    \/ W_DismissLossDialog
    \/ W_openLeaderboard
    \/ W_closeLeaderboard

SpecWorker == InitWorker /\ [][NextWorker]_vars

(***************************************************************************)
(* The worker answers with an invalid result.  workers/colorWorker.ts is   *)
(* not part of the sources; an invalid result is the one the validity test *)
(* of the current revision (line 186) is written for: no target, no        *)
(* options.                                                                *)
(***************************************************************************)
InvalidColors == [target |-> NoColor, options |-> <<>>]

\* The worker's message for the request of startGame carries an invalid
\* result: startGame of the worker revisions (part_002 lines 228-247,
\* part_001 lines 132-174) resumes with it as with any other, there is no
\* test between the await and the updates.
W_workerReplyInvalid ==
    /\ worker.queue # <<>>
    /\ worker.promise.kind = "start"
    /\ worker' = [queue |-> Tail(worker.queue), promise |-> NoPromise]
    /\ UNCHANGED pending
    /\ NoPersistence
    /\ W_startResumed(InvalidColors)

NextWorkerInvalid ==
    \/ NextWorker
    \/ W_workerReplyInvalid

SpecWorkerInvalid == InitWorker /\ [][NextWorkerInvalid]_vars

(***************************************************************************)
(* Runs of part_001 that are under way.  SpecLateWorker starts at the      *)
(* beginning of a round at a level of LateWorkerStarts, in a state the run *)
(* has reached from startGame by picks made at once: a colour at           *)
(* difference 0.05 (close in part_001) at the levels of closeAt, the       *)
(* target at the others.                                                   *)
(***************************************************************************)
\* One round of such a run (lines 288-331, 340-358).
W_pickAtOnce(run, closeAt) ==
    LET level == run.gs.level
        atPick == [run.gs EXCEPT
                     !.timeLeft = selectionTime(level, run.r.performanceRating)]
        selectedColor == IF level \in closeAt
                         THEN atPick.targetColor + 50
                         ELSE atPick.targetColor
        v == W_selectionVerdict(atPick, run.r, run.combo, selectedColor)
    IN  [ gs |-> [atPick EXCEPT !.level = level + 1,
                                !.score = atPick.score + v.totalPoints,
                                !.targetColor = (level + 1) * ColorStride,
                                !.timeLeft = 3],
          r |-> [run.r EXCEPT !.levelStarted = v.currentTenLevelBlock,
                              !.closeMatches = v.newCloseMatches,
                              !.performanceRating = v.newPerformanceRating],
          combo |-> v.newComboMultiplier,
          alive |-> ~v.gameOver ]

RECURSIVE W_playRounds(_, _, _, _)
W_playRounds(run, from, to, closeAt) ==
    IF ~run.alive \/ from >= to THEN run
    ELSE IF to = from + 1 THEN W_pickAtOnce(run, closeAt)
    ELSE LET mid == (from + to) \div 2
         IN  W_playRounds(W_playRounds(run, from, mid, closeAt), mid, to, closeAt)

\* The run of part_001 at the start of the round of level, from the state
\* of startGame (lines 140-161).
W_runTo(level, closeAt) ==
    W_playRounds([ gs |-> [ targetColor |-> ColorStride, options |-> <<>>,
                            score |-> 0, level |-> 1, timeLeft |-> 3,
                            isPlaying |-> TRUE ],
                   r |-> Rev1Init, combo |-> 10, alive |-> TRUE ],
                 1, level, closeAt)

\* The runs SpecLateWorker starts from: at the end of the first block of ten
\* levels with 0, 1 or 2 close picks counted, and at the levels 10 and 50.
LateWorkerStarts ==
    { [level |-> 9, closeAt |-> 1..k] : k \in 0..2 }
    \cup { [level |-> l, closeAt |-> {}] : l \in {10, 50} }

InitLateWorker ==
    \E start \in LateWorkerStarts :
       LET run == W_runTo(start.level, start.closeAt) IN
       /\ run.alive
       /\ \E colors \in generateGameColors(start.level) :
             gameState = [run.gs EXCEPT !.targetColor = colors.target,
                                        !.options = colors.options]
       /\ showTarget = TRUE
       /\ comboMultiplier = run.combo
       /\ isProcessingSelection = FALSE
       /\ showLossDialog = FALSE
       /\ timerRef = TRUE
       /\ pending = NoPending
       /\ rev1 = run.r
       /\ worker = WorkerIdle
       /\ PersistenceAtRest(Player(TopScore))
       /\ phaseTicks = 0
       /\ lastOp = "selectReply"

SpecLateWorker == InitLateWorker /\ [][NextWorker]_vars

(***************************************************************************)
(* Claims about the worker-backed revision.                                *)
(***************************************************************************)
\* C1: a select() made while the processing flag is set is discarded, it
\* changes nothing and requests no colours; the score only changes when a
\* game starts or when the one pick in flight advances the level by one.
C1_SelectWhileProcessingIsDiscarded ==
    [][ /\ (lastOp' \in {"select", "selectIgnored"} /\ isProcessingSelection)
           => /\ gameState' = gameState
              /\ comboMultiplier' = comboMultiplier
              /\ showTarget' = showTarget
              /\ rev1' = rev1
              /\ worker' = worker
              /\ isProcessingSelection'
        /\ gameState'.score # gameState.score
           => \/ lastOp' = "start"
              \/ /\ lastOp' = "selectReply"
                 /\ gameState'.level = gameState.level + 1
      ]_vars

\* A click was discarded while the colours of a pick were awaited.
C1_Witness ==
    /\ lastOp = "selectIgnored"
    /\ isProcessingSelection
    /\ gameState.isPlaying
    /\ worker.promise.kind = "select"
    /\ worker.queue # <<>>

\* C2 (as claimed): the colours of a pick that arrive once the run is over
\* are discarded, they change neither the game state nor the phase.
C2_StaleSelectionResultDiscarded ==
    [][ (lastOp' = "selectReply" /\ ~gameState.isPlaying)
        => (gameState' = gameState /\ showTarget' = showTarget)
      ]_vars

(***************************************************************************)
(* Claims about the current revision.                                      *)
(***************************************************************************)
\* The fields of the GameState of the specification, with the phase.
EngineState == <<gameState, showTarget, comboMultiplier>>

\* C3: once the run is over (isPlaying = FALSE) the interval is cancelled, and
\* no firing of the timer changes the game state, the phase or the multiplier.
C3_NoTickAfterGameOver ==
    [][ /\ ~gameState'.isPlaying => ~timerRef'
        /\ (lastOp' = "tick" /\ ~gameState.isPlaying) => EngineState' = EngineState
      ]_vars

\* The run was ended by a pick and the interval is gone.
C3_Witness ==
    /\ lastOp = "settle"
    /\ ~gameState.isPlaying
    /\ showLossDialog
    /\ ~timerRef

\* C4 (as claimed): a select() outside AwaitingSelection changes none of
\* score, level, comboMultiplier, closeMatches, timeLeft and the phase, and
\* raises no game over.
C4_SelectOutOfPhaseIsNoOp ==
    [][ (lastOp' \in {"select", "selectIgnored"} /\ Phase # "AwaitingSelection")
        => /\ EngineState' = EngineState
           /\ showLossDialog' = showLossDialog
      ]_vars

C6_StartIsFresh ==
    [][ lastOp' \in {"start", "playAgain"}
        => /\ gameState'.isPlaying
           /\ gameState'.level = 1
           /\ gameState'.score = 0
           /\ gameState'.closeMatches = 0
           /\ gameState'.timeLeft = viewTime
           /\ comboMultiplier' = 10
           /\ showTarget'
           /\ ~isProcessingSelection'
           /\ ~showLossDialog'
           /\ phaseTicks' = 0
           /\ [target |-> gameState'.targetColor, options |-> gameState'.options]
                 \in generateGameColors(1)
      ]_vars

\* A run started from the loss dialog of an earlier run.
C6_Witness ==
    /\ lastOp = "playAgain"
    /\ gameState.isPlaying
    /\ gameState.score = 0

\* C7: in ShowingTarget the first viewTime - 1 firings only count down; the
\* firing number viewTime switches to AwaitingSelection with timeLeft =
\* selectionTime(level) and leaves the rest of the game state unchanged.
C7_ViewLastsViewTimeTicks ==
    [][ (lastOp' = "tick" /\ Phase = "ShowingTarget")
        => IF phaseTicks + 1 < viewTime
           THEN /\ Phase' = "ShowingTarget"
                /\ phaseTicks' = phaseTicks + 1
           ELSE /\ phaseTicks + 1 = viewTime
                /\ Phase' = "AwaitingSelection"
                /\ gameState' = [gameState EXCEPT
                                    !.timeLeft = selectionTime(gameState.level, 100)]
                /\ comboMultiplier' = comboMultiplier
      ]_vars

\* The selection window has just opened, above level 1.
C7_Witness ==
    /\ lastOp = "tick"
    /\ Phase = "AwaitingSelection"
    /\ phaseTicks = 0
    /\ gameState.level > 1
    /\ gameState.timeLeft = selectionTime(gameState.level, 100)

\* C8: in AwaitingSelection the firings 1 .. selectionTime(level) - 1 keep the
\* run in AwaitingSelection and the firing number selectionTime(level) ends it.
C8_SelectionTimesOutAfterSelectionTime ==
    [][ (lastOp' = "tick" /\ Phase = "AwaitingSelection")
        => IF phaseTicks + 1 < selectionTime(gameState.level, 100)
           THEN /\ Phase' = "AwaitingSelection"
                /\ phaseTicks' = phaseTicks + 1
           ELSE /\ phaseTicks + 1 = selectionTime(gameState.level, 100)
                /\ ~gameState'.isPlaying
                /\ showLossDialog'
      ]_vars

\* The selection window ran out.
C8_Witness ==
    /\ lastOp = "tick"
    /\ ~gameState.isPlaying
    /\ showLossDialog
    /\ gameState.level > 1

\* The pick of the last step.
PickResolved == lastOp' = "select" /\ pending'.kind = "settle"
                               /\ pending'.outcome = "resolved"

\* C9: a non-terminal pick in AwaitingSelection at level L, its colours
\* generated, gives in one step level L + 1, the score raised by the pick's
\* totalPoints, the colours of generateGameColors(L + 1), timeLeft = viewTime
\* and ShowingTarget.
C9_NonTerminalPickAdvances ==
    [][ (PickResolved /\ Phase = "AwaitingSelection" /\ ~pending'.result.gameOver)
        => /\ gameState'.level = gameState.level + 1
           /\ gameState'.score = gameState.score + pending'.result.totalPoints
           /\ pending'.result.totalPoints \in
                 { selectionVerdict(gameState, comboMultiplier, c).totalPoints
                   : c \in renderedSwatches }
           /\ [target |-> gameState'.targetColor, options |-> gameState'.options]
                 \in generateGameColors(gameState.level + 1)
           /\ gameState'.timeLeft = viewTime
           /\ gameState'.isPlaying
           /\ Phase' = "ShowingTarget"
      ]_vars

\* A second round was won.
C9_Witness ==
    /\ lastOp = "select"
    /\ Phase = "ShowingTarget"
    /\ gameState.level = 3
    /\ gameState.score > 0

\* C10: a terminal pick ends the run, keeps the level and adds no points.
C10_TerminalPickEndsRun ==
    [][ (PickResolved /\ pending'.result.gameOver)
        => /\ ~gameState'.isPlaying
           /\ gameState'.level = gameState.level
           /\ gameState'.score = gameState.score
      ]_vars

\* A terminal pick that earned points.
C10_Witness ==
    /\ lastOp = "select"
    /\ pending.kind = "settle"
    /\ pending.outcome = "resolved"
    /\ pending.result.gameOver
    /\ pending.result.totalPoints > 0
    /\ ~gameState.isPlaying

(***************************************************************************)
(* Claims about scoring and classification, and about the difficulty       *)
(* model (current revision).                                               *)
(***************************************************************************)
\* The difference of the pick of this step, and its class as the claims
\* define it: exact below 1, else close below the tolerance of the level.
PickDifference == Abs(gameState.targetColor - pending'.color)
PickIsExact == PickDifference < 1000
PickIsClose == ~PickIsExact /\ 10 * PickDifference < closeTolerance(gameState.level)
\* The counter a pick is evaluated with, and the limit of its level.
CountBeforePick == IF gameState.level % 10 = 0 THEN 0 ELSE gameState.closeMatches
LimitOf(level) == IF level <= 50 THEN 3 ELSE 1

\* C11: a close pick counts one more close match and is terminal exactly when
\* that count exceeds the limit of the level (3 up to level 50, else 1); so
\* three close picks from level 1 leave closeMatches = 3 with the run going,
\* and the fourth ends it.
C11_ClosePickTerminalIffOverLimit ==
    [][ (PickResolved /\ PickIsClose)
        => /\ gameState'.closeMatches = CountBeforePick + 1
           /\ pending'.result.gameOver <=> (CountBeforePick + 1 > LimitOf(gameState.level))
           /\ gameState'.isPlaying <=> (CountBeforePick + 1 <= LimitOf(gameState.level))
           /\ (gameState.level = 3 /\ gameState.closeMatches = 2)
                 => (gameState'.isPlaying /\ gameState'.closeMatches = 3)
      ]_vars

\* The fourth close pick in a row, at level 4, ended the run.
C11_Witness ==
    /\ lastOp = "select"
    /\ pending.kind = "settle"
    /\ pending.outcome = "resolved"
    /\ pending.color = gameState.level * ColorStride + 1000
    /\ pending.result.gameOver
    /\ ~gameState.isPlaying
    /\ gameState.level = 4
    /\ gameState.closeMatches = 4

\* C12 (as claimed): from level 51 on some colour that is not an exact match
\* is a close pick (the nearest one, at difference 1.0, is), and a close pick
\* is tolerated when it is the first of its block and terminal when it is the
\* second.
C12_ClosePickToleratedOnceAbove50 ==
    [][ (gameState.level >= 51 /\ gameState.isPlaying)
        => /\ 10 * 1000 < closeTolerance(gameState.level)
           /\ (PickResolved /\ PickIsClose)
                 => /\ CountBeforePick = 0
                       => (gameState'.isPlaying /\ gameState'.closeMatches = 1)
                    /\ CountBeforePick = 1
                       => (~gameState'.isPlaying /\ gameState'.closeMatches = 2)
      ]_vars

\* C13: while the run goes on, closeMatches is at most the limit of the
\* current level, also once the level has passed from 50 to 51.
C13_CloseMatchesWithinLimitWhilePlaying ==
    gameState.isPlaying => gameState.closeMatches <= LimitOf(gameState.level)

\* Level 51, entered by the run that had three close matches at level 50.
C13_Witness ==
    /\ lastOp = "select"
    /\ gameState.isPlaying
    /\ gameState.level = 51
    /\ comboMultiplier = 45
    /\ gameState.closeMatches = 0

\* C14 (as claimed): a round at a level divisible by 10 begins with the
\* stored counter at 0, and within a run the stored counter goes down at no
\* other moment.
C14_ResetWhenRoundStartsAtTenth ==
    [][ /\ (gameState'.isPlaying /\ gameState'.level # gameState.level
              /\ gameState'.level % 10 = 0)
           => gameState'.closeMatches = 0
        /\ (gameState.isPlaying /\ gameState'.closeMatches < gameState.closeMatches)
           => (gameState'.level # gameState.level /\ gameState'.level % 10 = 0)
      ]_vars

\* C15 (as claimed): comboMultiplier is one of 1, 1.5, ..., 5, and a pick
\* that is not exact, close or wrong, sets it to 1.
C15_ComboInRangeAndResetByNonExact ==
    [][ /\ comboMultiplier' \in { 10 + 5 * k : k \in 0..8 }
        /\ (PickResolved /\ ~PickIsExact) => comboMultiplier' = 10
      ]_vars

\* C16: a pick of the target itself (difference 0) is never terminal, sets
\* comboMultiplier to min(5, previous + 0.5) and does not raise closeMatches,
\* at any level and with any stored closeMatches.
C16_ExactPickAdvances ==
    [][ (PickResolved /\ PickDifference = 0)
        => /\ ~pending'.result.gameOver
           /\ gameState'.isPlaying
           /\ gameState'.level = gameState.level + 1
           /\ comboMultiplier' = Min(50, comboMultiplier + 5)
           /\ gameState'.closeMatches <= gameState.closeMatches
      ]_vars

\* The target was picked at level 9 with three close matches stored.
C16_Witness ==
    /\ lastOp = "select"
    /\ pending.kind = "settle"
    /\ pending.outcome = "resolved"
    /\ pending.color = 9 * ColorStride
    /\ gameState.isPlaying
    /\ gameState.level = 10
    /\ gameState.closeMatches = 3
    /\ comboMultiplier = 40

\* The points of the pick of this step as the claim computes them, from the
\* state before the pick and the multiplier after it.
ClaimedAccuracyPoints == Max(0, 100 - PickDifference)
ClaimedSpeedPoints ==
    Round(Max(0, gameState.timeLeft) * 50, selectionTime(gameState.level, 100))
ClaimedTotalPoints ==
    Round((ClaimedAccuracyPoints + ClaimedSpeedPoints) * comboMultiplier', 10)
PointsAsClaimed ==
    /\ pending'.result.accuracyPoints = ClaimedAccuracyPoints
    /\ pending'.result.speedPoints = ClaimedSpeedPoints
    /\ pending'.result.totalPoints = ClaimedTotalPoints
\* The pick of the scenario: the target, at level 1, at once, with combo 1.
ScenarioPick ==
    /\ gameState.level = 1
    /\ PickDifference = 0
    /\ gameState.timeLeft = 15
    /\ selectionTime(1, 100) = 15
    /\ comboMultiplier = 10

\* C17 (as claimed): the points of every pick follow the three formulas, and
\* the pick of the scenario gives 100 + 50 points, multiplier 1.5, a total of
\* 150 and level 2.
C17_PointsScenarioTotals150 ==
    [][ PickResolved
        => /\ PointsAsClaimed
           /\ ScenarioPick
                 => /\ pending'.result.accuracyPoints = 100
                    /\ pending'.result.speedPoints = 50
                    /\ comboMultiplier' = 15
                    /\ pending'.result.totalPoints = 150
                    /\ gameState'.level = 2
      ]_vars

\* C17 (amended): the same, with a total of 225 = round(150 * 1.5) in the
\* scenario, which is added to the score.
C17_PointsScenarioTotals225 ==
    [][ PickResolved
        => /\ PointsAsClaimed
           /\ ScenarioPick
                 => /\ pending'.result.accuracyPoints = 100
                    /\ pending'.result.speedPoints = 50
                    /\ comboMultiplier' = 15
                    /\ pending'.result.totalPoints = 225
                    /\ gameState'.level = 2
                    /\ gameState'.score = gameState.score + 225
      ]_vars

\* The pick of the scenario was made.
C17_Witness ==
    /\ lastOp = "select"
    /\ pending.kind = "settle"
    /\ pending.outcome = "resolved"
    /\ pending.color = ColorStride
    /\ pending.result.totalPoints = 225
    /\ gameState.level = 2
    /\ gameState.score = 225
    /\ comboMultiplier = 15

\* C18: every pick falls in one class: exact below 1 (never terminal), else
\* close below 25 * (1 - similarity(level)) (counted as a close match), else
\* wrong (terminal, not counted); and the tolerance 25 * (1 - similarity) of
\* the next level is never above that of the level.
C18_ThreeClassesAndShrinkingTolerance ==
    [][ /\ PickResolved
           => /\ pending'.result.isExactMatch <=> PickIsExact
              /\ PickIsExact
                    => (~pending'.result.gameOver
                        /\ gameState'.closeMatches = CountBeforePick)
              /\ PickIsClose
                    => gameState'.closeMatches = CountBeforePick + 1
              /\ (~PickIsExact /\ ~PickIsClose)
                    => (pending'.result.gameOver
                        /\ gameState'.closeMatches = CountBeforePick)
        /\ 25 * (10000 - similarity(gameState.level + 1, 100))
              <= 25 * (10000 - similarity(gameState.level, 100))
      ]_vars

\* A pick at difference 1.0, close at level 9, ended the run at level 51,
\* where the tolerance is below 1.
C18_Witness ==
    /\ lastOp = "select"
    /\ pending.kind = "settle"
    /\ pending.outcome = "resolved"
    /\ pending.color = 51 * ColorStride + 1000
    /\ pending.result.gameOver
    /\ ~pending.result.isExactMatch
    /\ gameState.level = 51
    /\ gameState.closeMatches = 0

\* C19: at every level up to the one played, the option count
\* min(10, 3 + floor(level / 10)) is between 3 and 10 and not above that of
\* the next level.
C19_OptionCountBoundedAndMonotone ==
    \A level \in 1..gameState.level :
       /\ colorCount(level) \in 3..10
       /\ colorCount(level) <= colorCount(level + 1)

\* The ten options of level 70, where the count reaches 10, are on offer.
C19_Witness ==
    /\ lastOp = "tick"
    /\ gameState.isPlaying
    /\ ~showTarget
    /\ Len(gameState.options) = 10
    /\ gameState.level = 70
    /\ colorCount(gameState.level) = 10
    /\ colorCount(gameState.level - 1) = 9

\* C20: at every level up to the one played, the similarity (performance
\* factor 1) is at most 0.99 and not above that of the next level, the band
\* ends 10, 30 and 50 included.
C20_SimilarityCappedAndMonotone ==
    \A level \in 1..gameState.level :
       /\ similarity(level, 100) <= 9900
       /\ similarity(level, 100) <= similarity(level + 1, 100)

\* The run passed from level 50 to level 51, across the last band end.
C20_Witness ==
    /\ lastOp = "select"
    /\ gameState.isPlaying
    /\ gameState.level = 51
    /\ similarity(50, 100) = 9600
    /\ similarity(51, 100) = 9605


(***************************************************************************)
(* Claims about the fields of the game state along a run (current          *)
(* revision).                                                              *)
(***************************************************************************)
\* The selection time as the claim states it.
ClaimedSelectionTime(level) ==
    IF level <= 10 THEN 15
    ELSE IF level <= 80 THEN Max(2, 15 - ((level - 10) \div 5))
    ELSE 2

\* C21: at every level up to the one played, selectionTime is 15 up to level
\* 10, max(2, 15 - floor((level - 10) / 5)) up to level 80 and 2 above; it is
\* an integer in 2..15, not below that of the next level, and the same at
\* the levels 80 and 81.  The selection window never holds more seconds.
C21_SelectionTimeBandsAndMonotone ==
    /\ \A level \in 1..gameState.level :
          /\ selectionTime(level, 100) = ClaimedSelectionTime(level)
          /\ selectionTime(level, 100) \in 2..15
          /\ selectionTime(level, 100) >= selectionTime(level + 1, 100)
    /\ gameState.level >= 81 => selectionTime(80, 100) = selectionTime(81, 100)
    /\ Phase = "AwaitingSelection"
          => gameState.timeLeft \in 1..selectionTime(gameState.level, 100)

\* The selection window of level 81 has just opened, with 2 seconds.
C21_Witness ==
    /\ lastOp = "tick"
    /\ Phase = "AwaitingSelection"
    /\ phaseTicks = 0
    /\ gameState.level = 81
    /\ gameState.timeLeft = 2
    /\ selectionTime(80, 100) = 2
    /\ selectionTime(79, 100) = 2
    /\ selectionTime(74, 100) = 3

\* The operations that begin a run (or fail to), and a pick that continues
\* the run.
StartOps == {"start", "playAgain", "startFailed"}
PickContinues ==
    /\ lastOp' = "select"
    /\ pending'.kind = "settle"
    /\ pending'.outcome = "resolved"
    /\ ~pending'.result.gameOver

\* C22: the score is never negative; between two starts no step lowers it;
\* only a start and a pick that continues the run change it; a start leaves
\* it at 0.
C22_ScoreMonotoneWithinRun ==
    [][ /\ gameState'.score >= 0
        /\ lastOp' \notin StartOps => gameState'.score >= gameState.score
        /\ gameState'.score # gameState.score
              => (lastOp' \in StartOps \/ PickContinues)
        /\ lastOp' \in StartOps => gameState'.score = 0
      ]_vars

\* The timer fired in a run that has scored in two rounds.
C22_Witness ==
    /\ lastOp = "tick"
    /\ gameState.isPlaying
    /\ gameState.level = 3
    /\ gameState.score > 225

\* C23: the level is at least 1; between two starts it changes only by a
\* pick that continues the run, by exactly + 1; a firing of the timer, a
\* click that is ignored, the reactions of a pick and a game over keep it.
C23_LevelStepsByOne ==
    [][ /\ gameState'.level >= 1
        /\ PickContinues => gameState'.level = gameState.level + 1
        /\ (gameState'.level # gameState.level /\ lastOp' \notin StartOps)
              => (PickContinues /\ gameState'.level = gameState.level + 1)
        /\ lastOp' \in {"tick", "selectIgnored", "settle", "dismiss"}
              => gameState'.level = gameState.level
        /\ (gameState.isPlaying /\ ~gameState'.isPlaying)
              => gameState'.level = gameState.level
      ]_vars

\* A click was ignored after a run that ended at level 3.
C23_Witness ==
    /\ lastOp = "selectIgnored"
    /\ ~gameState.isPlaying
    /\ gameState.level = 3

\* C24: timeLeft is never negative, and a firing of the timer that keeps the
\* phase lowers it by exactly 1.
C24_TimeLeftNeverNegative ==
    /\ [](gameState.timeLeft >= 0)
    /\ [][ (lastOp' = "tick" /\ gameState.isPlaying /\ Phase' = Phase)
           => gameState'.timeLeft = gameState.timeLeft - 1
         ]_vars

\* The timer fired in the last second but one of a selection window.
C24_Witness ==
    /\ lastOp = "tick"
    /\ Phase = "AwaitingSelection"
    /\ gameState.timeLeft = 1
    /\ phaseTicks = selectionTime(gameState.level, 100) - 1

\* C25: a firing of the timer that keeps the phase changes timeLeft only;
\* a start, the end of the view and the advance of a round set timeLeft to
\* the duration of the phase they begin.
C25_TickChangesTimeLeftOnly ==
    [][ /\ (lastOp' = "tick" /\ gameState.isPlaying /\ Phase' = Phase)
           => /\ gameState' = [gameState EXCEPT !.timeLeft = gameState.timeLeft - 1]
              /\ comboMultiplier' = comboMultiplier
              /\ showTarget' = showTarget
        /\ lastOp' \in {"start", "playAgain"}
           => (Phase' = "ShowingTarget" /\ gameState'.timeLeft = viewTime)
        /\ (lastOp' = "tick" /\ Phase = "ShowingTarget" /\ Phase' # Phase)
           => /\ Phase' = "AwaitingSelection"
              /\ gameState'.timeLeft = ClaimedSelectionTime(gameState.level)
        /\ PickContinues
           => (Phase' = "ShowingTarget" /\ gameState'.timeLeft = viewTime)
      ]_vars

\* The selection window of level 2 has just opened, with 15 seconds.
C25_Witness ==
    /\ lastOp = "tick"
    /\ Phase = "AwaitingSelection"
    /\ gameState.level = 2
    /\ gameState.timeLeft = 15
    /\ phaseTicks = 0
    /\ gameState.score > 0

\* The number of places of a sequence that hold a value.
Occurrences(seq, x) == Cardinality({ i \in 1..Len(seq) : seq[i] = x })

\* C26: while a selection is awaited, the stored target and options are one
\* result of generateGameColors for the stored level: the options hold the
\* target exactly once and are colorCount(level) long.
C26_OptionsHoldTargetOnce ==
    Phase = "AwaitingSelection"
    => /\ [target |-> gameState.targetColor, options |-> gameState.options]
             \in generateGameColors(gameState.level)
       /\ Occurrences(gameState.options, gameState.targetColor) = 1
       /\ Len(gameState.options) = colorCount(gameState.level)

\* The window of level 11 is open after a close pick at level 10: the four
\* options of level 10 were replaced by the four of level 11.
C26_Witness ==
    /\ lastOp = "tick"
    /\ Phase = "AwaitingSelection"
    /\ gameState.level = 11
    /\ gameState.closeMatches = 1
    /\ Len(gameState.options) = 4
    /\ gameState.targetColor = 11 * ColorStride

\* C27 (as claimed): whenever the game is not playing, the target is empty
\* and there are no options.
C27_NoColorsWhenNotPlaying ==
    ~gameState.isPlaying
    => (gameState.targetColor = NoColor /\ gameState.options = <<>>)

\* The steps in which a call of the persistence collaborator fails: the
\* awaited saveScore of the game end, the username check, the saveScore of
\* the username submission.
PersistenceFailures == {"saveFailed", "checkFailed", "submitSaveFailed"}

\* C28 (as claimed): a failure of the persistence collaborator leaves score,
\* level and isPlaying as they were, the local best score is at least the
\* score of the run that ended, and a start is accepted afterwards (the game
\* is not playing, no submission is left in flight).
C28_PersistenceFailureIsLocal ==
    [][ lastOp' \in PersistenceFailures
        => /\ gameState'.score = gameState.score
           /\ gameState'.level = gameState.level
           /\ gameState'.isPlaying = gameState.isPlaying
           /\ ~gameState.isPlaying
              => /\ highestScoreOf(localUserData') >= gameState.score
                 /\ submit' = NoSubmit
                 /\ pending' = NoPending
      ]_vars

\* C29 (as claimed): the persistence collaborator is called only when the
\* run has ended, with the score and the level of the game state of the
\* ended run.
C29_SavedOnlyAfterRunEnded ==
    [][ \A i \in 1..Len(saveCalls') :
           /\ ~gameState'.isPlaying
           /\ saveCalls'[i].score = gameState'.score
           /\ saveCalls'[i].level = gameState'.level
      ]_vars

\* C30 (as claimed): a round is resolved once: the level advances only in a
\* run that is playing and stays playing, and once its timeout has ended the
\* run, the pick of that round changes neither the level nor the score.
C30_RoundResolvedOnce ==
    [][ /\ (gameState'.level # gameState.level /\ lastOp' \notin StartOps)
           => (gameState.isPlaying /\ gameState'.isPlaying)
        /\ (~gameState.isPlaying /\ lastOp' \notin StartOps)
           => /\ gameState'.level = gameState.level
              /\ gameState'.score = gameState.score
              /\ ~gameState'.isPlaying
      ]_vars

(***************************************************************************)
(* Claims about the glue around a run: saving, the rendered swatches, the  *)
(* processing flag.                                                        *)
(***************************************************************************)
\* C31 (as claimed): the final (username, score, level) of a finished run is
\* reported to saveScore at most once: no step makes more than one call, and
\* a step that made a call is not followed by a step that makes another.
C31_FinalScoreSavedAtMostOnce ==
    [][ /\ Len(saveCalls') <= 1
        /\ saveCalls # <<>> => saveCalls' = <<>>
      ]_vars

\* C32 (as claimed): whenever a selection is awaited, the target colour is
\* one of the swatches the player can click.
C32_TargetAmongRenderedSwatches ==
    Phase = "AwaitingSelection" => gameState.targetColor \in renderedSwatches

\* C33 (as claimed): the processing flag is clear whenever a new run starts:
\* no run begins with the flag of a selection of the run before.
C33_FlagClearAtStart ==
    [][ lastOp' \in StartOps /\ gameState'.isPlaying
        => ~isProcessingSelection' ]_vars

(***************************************************************************)
(* Claims about the numbers of a pick: tolerance, points, time left.       *)
(***************************************************************************)
\* C34 (as claimed): from level 50 on no pick is close: every pick is exact
\* or ends the run, and no pick raises closeMatches.
C34_NoClosePickFrom50 ==
    [][ (PickResolved /\ gameState.level >= 50)
        => /\ pending'.result.isExactMatch \/ pending'.result.gameOver
           /\ gameState'.closeMatches = CountBeforePick
      ]_vars

\* C34 (amended): from level 51 on no pick is close: every pick is exact or
\* ends the run, no pick raises closeMatches, and the limit of these levels
\* is never exceeded by a count.
C34_NoClosePickFrom51 ==
    [][ (PickResolved /\ gameState.level >= 51)
        => /\ ~PickIsClose
           /\ pending'.result.isExactMatch \/ pending'.result.gameOver
           /\ gameState'.closeMatches = CountBeforePick
           /\ pending'.result.gameOver
                 => gameState'.closeMatches <= LimitOf(gameState.level)
      ]_vars

\* The nearest colour that is not an exact match (difference 1.0) was picked
\* at level 51 at once: the pick was wrong and counted no close match.
C34_Witness ==
    /\ lastOp = "select"
    /\ pending.kind = "settle"
    /\ pending.outcome = "resolved"
    /\ pending.color = 51 * ColorStride + 1000
    /\ pending.result.gameOver
    /\ pending.result.speedPoints = 50
    /\ ~gameState.isPlaying
    /\ gameState.level = 51
    /\ gameState.closeMatches = 0

\* C35: a pick that is not exact (difference 1 or more) has accuracyPoints
\* 0; a close pick that does not end the run sets the multiplier to 1 and
\* adds exactly its speedPoints to the score; accuracyPoints is not 0 only
\* for an exact pick at a difference below 0.1.
C35_AccuracyPointsOnlyNearTarget ==
    [][ PickResolved
        => /\ ~PickIsExact => pending'.result.accuracyPoints = 0
           /\ (PickIsClose /\ ~pending'.result.gameOver)
                 => /\ comboMultiplier' = 10
                    /\ pending'.result.totalPoints = pending'.result.speedPoints
                    /\ gameState'.score = gameState.score + pending'.result.speedPoints
           /\ pending'.result.accuracyPoints # 0
                 => (PickIsExact /\ PickDifference < 100)
      ]_vars

\* After an exact pick at level 1 (multiplier 1.5, 225 points), a close pick
\* at level 2 made at once added its 50 speed points and nothing else.
C35_Witness ==
    /\ lastOp = "select"
    /\ pending.kind = "settle"
    /\ pending.outcome = "resolved"
    /\ pending.color = 2 * ColorStride + 1000
    /\ pending.result.accuracyPoints = 0
    /\ pending.result.totalPoints = 50
    /\ gameState.isPlaying
    /\ gameState.level = 3
    /\ gameState.closeMatches = 1
    /\ gameState.score = 275
    /\ comboMultiplier = 10

\* C36 (as claimed): while a selection is awaited, timeLeft is between 1 and
\* selectionTime(level); every selection the engine accepts has speedPoints
\* in 1..50 and totalPoints in 0..750; and the score of a run at level n is
\* at most 750 * (n - 1).
C36_TimeLeftAndPointsBounded ==
    /\ [](Phase = "AwaitingSelection"
          => /\ 1 <= gameState.timeLeft
             /\ gameState.timeLeft <= selectionTime(gameState.level, 100))
    /\ [](gameState.score <= 750 * (gameState.level - 1))
    /\ [][ PickResolved
           => /\ pending'.result.speedPoints \in 1..50
              /\ pending'.result.totalPoints \in 0..750
         ]_vars

(***************************************************************************)
(* Claims that compare the revisions.                                      *)
(***************************************************************************)
\* The game state of part_001 with its counter, as the current revision
\* holds it.
W_withCloseMatches == [ targetColor |-> gameState.targetColor,
                        options |-> gameState.options,
                        score |-> gameState.score, level |-> gameState.level,
                        timeLeft |-> gameState.timeLeft,
                        isPlaying |-> gameState.isPlaying,
                        closeMatches |-> rev1.closeMatches ]

ResetByCurrentRule == IF gameState.level % 10 = 0 THEN 0 ELSE rev1.closeMatches

StartBroughtNoColors == lastOp \in StartOps /\ gameState.targetColor = NoColor

\* C38: after a start whose round-1 colours could not be generated, or were
\* invalid, the engine is not playing, with score 0, level 1, closeMatches
\* 0, timeLeft 3, no target and no options; no timer is scheduled, the loss
\* dialog is closed and nothing stands in the way of another start (no
\* selection in flight, no start loading).
C38_FailedStartLeavesIdle ==
    StartBroughtNoColors
    => /\ ~gameState.isPlaying
       /\ gameState.score = 0
       /\ gameState.level = 1
       /\ gameState.timeLeft = 3
       /\ gameState.options = <<>>
       /\ "closeMatches" \in DOMAIN gameState => gameState.closeMatches = 0
       /\ rev1.closeMatches = 0
       /\ ~timerRef
       /\ ~showLossDialog
       /\ pending = NoPending
       /\ ~rev1.isLoading

=============================================================================
